---- MODULE Spec2Model ----
(***************************************************************************)
(* Model of etl_pipeline.py: main() runs extract, transform and load in   *)
(* sequence over an input CSV file and writes one JSON document.          *)
(*                                                                         *)
(* Texts are TLA+ strings.  Amounts are exact decimal numbers held as an  *)
(* integer count of hundredths.  Python objects that are shared by        *)
(* reference (the record dicts) live in `heap`; lists hold references.    *)
(***************************************************************************)
EXTENDS Integers, Sequences, FiniteSets, TLC

VARIABLES
    file,          \* transactions.csv: [exists, rows], rows after the header
    outfile,       \* transformed_transactions.json: [exists, torn, docs]
    pc,            \* position of main()
    run,           \* number of the current invocation of main()
    heap,          \* the record dicts created by extract, by reference
    transactions,  \* main's `transactions`: list of references into heap
    transformed,   \* main's `transformed`: list of references into heap
    summary,       \* main's `summary`
    success,       \* main's `success`
    exc,           \* exception that left main(), "" if none
    calls,         \* stages invoked by the current run, in order
    outfile0,      \* the output file as it was when the current run started
    firstOut       \* the document written by the first successful load

vars == <<file, outfile, pc, run, heap, transactions, transformed, summary,
          success, exc, calls, outfile0, firstOut>>

----------------------------------------------------------------------------
(* Bounds of the model *)

MaxRows == 2       \* rows of a file of the mixed family
MaxTopRows == 7    \* rows of a file of the many-senders family
MaxRuns == 2       \* invocations of main() on the same input file

(* Program constant: the slice [:5] of the top senders / recipients *)
TopK == 5

----------------------------------------------------------------------------
(* Python values *)

None == "<None>"          \* Python's None; never the text of a cell

Min(a, b) == IF a < b THEN a ELSE b

Front(s) == SubSeq(s, 1, Len(s) - 1)

Last(s) == s[Len(s)]

Range(s) == {s[i] : i \in DOMAIN s}

RECURSIVE GCD(_, _)
GCD(a, b) == IF b = 0 THEN a ELSE GCD(b, a % b)

(* a / b on exact numbers, as the reduced fraction <<numerator, denominator>> *)
TrueDiv(a, b) ==
    LET g == GCD(a, b) IN IF a = 0 THEN <<0, 1>> ELSE <<a \div g, b \div g>>

Digit == <<"0", "1", "2", "3", "4", "5", "6", "7", "8", "9">>

RECURSIVE Dec(_)
Dec(n) == IF n < 10 THEN Digit[n + 1] ELSE Dec(n \div 10) \o Digit[(n % 10) + 1]

Pad2(n) == IF n < 10 THEN "0" \o Dec(n) ELSE Dec(n)

(* f"${amount:.2f}" for a non-negative amount *)
FormatUsd(amount) == "$" \o Dec(amount \div 100) \o "." \o Pad2(amount % 100)

----------------------------------------------------------------------------
(* float(text): the decimal texts of the model and their values *)

AmountValue == ("10.00" :> 1000) @@ ("5.00" :> 500)

PyFloat(cell) ==
    IF cell = None THEN [raised |-> "TypeError", value |-> 0]
    ELSE IF cell \in DOMAIN AmountValue
         THEN [raised |-> "", value |-> AmountValue[cell]]
         ELSE [raised |-> "ValueError", value |-> 0]

----------------------------------------------------------------------------
(* datetime.strptime(text, '%Y-%m-%d %H:%M:%S') and strftime *)

(* The texts of the model that match the format's pattern, with the numbers
   the pattern captures: <<Y, m, d, H, M, S>>. *)
PatternFields ==
    ("2023-01-02 10:00:00" :> <<2023, 1, 2, 10, 0, 0>>)
 @@ ("2023-02-29 11:00:00" :> <<2023, 2, 29, 11, 0, 0>>)
 @@ ("2024-02-29 23:59:59" :> <<2024, 2, 29, 23, 59, 59>>)

IsLeap(y) == (y % 4 = 0 /\ y % 100 # 0) \/ y % 400 = 0

DaysInMonth(y, m) ==
    IF m = 2 THEN (IF IsLeap(y) THEN 29 ELSE 28)
    ELSE IF m \in {4, 6, 9, 11} THEN 30 ELSE 31

Strptime(text) ==
    IF text = None THEN [raised |-> "TypeError", dt |-> <<>>]
    ELSE IF text \notin DOMAIN PatternFields
         THEN [raised |-> "ValueError", dt |-> <<>>]
         ELSE LET f == PatternFields[text] IN
              IF /\ f[2] \in 1..12
                 /\ f[3] \in 1..DaysInMonth(f[1], f[2])
                 /\ f[4] \in 0..23 /\ f[5] \in 0..59 /\ f[6] \in 0..61
              THEN [raised |-> "", dt |-> f]
              ELSE [raised |-> "ValueError", dt |-> <<>>]

DayName == <<"Sunday", "Monday", "Tuesday", "Wednesday", "Thursday",
             "Friday", "Saturday">>

MonthOffset == <<0, 3, 2, 5, 0, 3, 5, 1, 4, 6, 2, 4>>

(* dt.strftime('%A') *)
StrfWeekday(dt) ==
    LET y == IF dt[2] < 3 THEN dt[1] - 1 ELSE dt[1]
        w == (y + (y \div 4) - (y \div 100) + (y \div 400)
                + MonthOffset[dt[2]] + dt[3]) % 7
    IN DayName[w + 1]

(* dt.strftime('%Y-%m-%d') for a four-digit year *)
StrfDate(dt) == Dec(dt[1]) \o "-" \o Pad2(dt[2]) \o "-" \o Pad2(dt[3])

(* dt.strftime('%H:%M:%S') *)
StrfTime(dt) == Pad2(dt[4]) \o ":" \o Pad2(dt[5]) \o ":" \o Pad2(dt[6])

----------------------------------------------------------------------------
(* extract *)

FieldNames == <<"sender", "recipient", "amount", "timestamp">>

(* csv.DictReader: blank rows are skipped; a short row's missing trailing
   columns read as None. *)
DictRow(cells) ==
    [k \in Range(FieldNames) |->
        LET i == CHOOSE j \in DOMAIN FieldNames : FieldNames[j] = k
        IN IF i <= Len(cells) THEN cells[i] ELSE None]

IsDataRow(cells) == cells # <<>>

DictReader(rows) ==
    LET data == SelectSeq(rows, IsDataRow)
    IN [i \in DOMAIN data |-> DictRow(data[i])]

(* `return []` of the handlers at lines 28-33; `partial` is the list built
   so far *)
ExceptReturn_Partial(partial) == partial

ExceptReturn(partial) == <<>>

(* The loop of lines 19-25 over the rows from index i on; `acc` is the list
   `transactions` built so far.  An exception leaves the loop for the
   handler. *)
RECURSIVE ExtractLoop(_, _, _)
ExtractLoop(rows, i, acc) ==
    IF i > Len(rows) THEN acc
    ELSE LET row == rows[i]
             amt == PyFloat(row.amount)
         IN IF amt.raised # ""
            THEN ExceptReturn(acc)
            ELSE ExtractLoop(rows, i + 1,
                     Append(acc, [sender    |-> row.sender,
                                  recipient |-> row.recipient,
                                  amount    |-> amt.value,
                                  timestamp |-> row.timestamp]))

(* extract(csv_file): the list of record dicts it returns *)
Extract(f) ==
    IF ~f.exists THEN ExceptReturn(<<>>)
    ELSE ExtractLoop(DictReader(f.rows), 1, <<>>)

----------------------------------------------------------------------------
(* transform *)

DerivedFields == {"amount_usd", "date", "time", "day_of_week"}

(* d[k1] = v1; d[k2] = v2; ... on the dict at reference ref: the object is
   changed in place, keys already present keep their position and get the
   new value *)
SetItems(h, ref, new) == [h EXCEPT ![ref] = new @@ @]

(* `for transaction in transactions` binds the name to the list's own
   object (line 46); the variant binds it to a copy, dict(transaction) *)
BindRecord_Copy(st, ref) ==
    [st EXCEPT !.heap = Append(@, @[ref]), !.cur = Len(st.heap) + 1]

BindRecord(st, ref) == [st EXCEPT !.cur = ref]

(* counts[key] += 1 on a defaultdict(int), which keeps its keys in the
   order of their first insertion: a sequence of <<key, count>> *)
Increment(counts, key) ==
    IF \E i \in DOMAIN counts : counts[i][1] = key
    THEN [i \in DOMAIN counts |->
            IF counts[i][1] = key THEN <<key, counts[i][2] + 1>> ELSE counts[i]]
    ELSE Append(counts, <<key, 1>>)

(* total_amount += amount (line 62) *)
AddAmount_Overwrite(total, amount) == amount

AddAmount(total, amount) == total + amount

(* transformed.append(transaction) (line 66) *)
ListAppend_Front(list, ref) == <<ref>> \o list

ListAppend(list, ref) == Append(list, ref)

(* Lines 51-59: the three fields derived from the timestamp; TypeError is
   not caught by `except ValueError` *)
ParseTimestamp(text) ==
    LET p == Strptime(text) IN
    IF p.raised = ""
    THEN [raised |-> "",
          fields |-> [date        |-> StrfDate(p.dt),
                      time        |-> StrfTime(p.dt),
                      day_of_week |-> StrfWeekday(p.dt)]]
    ELSE IF p.raised = "ValueError"
    THEN [raised |-> "",
          fields |-> [date        |-> "Unknown",
                      time        |-> "Unknown",
                      day_of_week |-> "Unknown"]]
    ELSE [raised |-> p.raised, fields |-> << >>]

(* One iteration of the loop of lines 46-66 on the record at `ref` *)
TransformRecord(st0, ref) ==
    LET st == BindRecord(st0, ref)
        t  == st.cur
        h1 == SetItems(st.heap, t,
                       [amount_usd |-> FormatUsd(st.heap[t].amount)])
        p  == ParseTimestamp(h1[t].timestamp)
    IN IF p.raised # ""
       THEN [st EXCEPT !.heap = h1, !.raised = p.raised]
       ELSE LET h2 == SetItems(h1, t, p.fields) IN
            [st EXCEPT
               !.heap = h2,
               !.total_amount = AddAmount(@, h2[t].amount),
               !.sender_counts = Increment(@, h2[t].sender),
               !.recipient_counts = Increment(@, h2[t].recipient),
               !.transformed = ListAppend(@, t)]

RECURSIVE TransformLoop(_, _, _)
TransformLoop(st, list, i) ==
    IF i > Len(list) \/ st.raised # "" THEN st
    ELSE TransformLoop(TransformRecord(st, list[i]), list, i + 1)

(* sorted(items, key=lambda x: x[1], reverse=True): a stable sort, so items
   of equal count keep their order; the variants leave the list unsorted,
   or put a later item before the earlier ones of equal count *)
InsertByCount(sorted, item) ==
    LET n == Cardinality({i \in DOMAIN sorted : sorted[i][2] >= item[2]})
    IN SubSeq(sorted, 1, n) \o <<item>> \o SubSeq(sorted, n + 1, Len(sorted))

InsertByCount_TiesFirst(sorted, item) ==
    LET n == Cardinality({i \in DOMAIN sorted : sorted[i][2] > item[2]})
    IN SubSeq(sorted, 1, n) \o <<item>> \o SubSeq(sorted, n + 1, Len(sorted))

RECURSIVE SortedByCountDesc_TiesReversed(_)
SortedByCountDesc_TiesReversed(items) ==
    IF items = <<>> THEN <<>>
    ELSE InsertByCount_TiesFirst(SortedByCountDesc_TiesReversed(Front(items)),
                                 Last(items))

SortedByCountDesc_Unsorted(items) == items

RECURSIVE SortedByCountDesc(_)
SortedByCountDesc(items) ==
    IF items = <<>> THEN <<>>
    ELSE InsertByCount(SortedByCountDesc(Front(items)), Last(items))

(* dict(sorted(...)[:5]) (lines 73-74): keys are distinct, so the dict holds
   the slice in its order *)
TopCounts(counts) ==
    LET s == SortedByCountDesc(counts) IN SubSeq(s, 1, Min(TopK, Len(s)))

NoSummary ==
    [total_transactions |-> 0, total_amount |-> 0, average_amount |-> <<0, 1>>,
     top_senders |-> <<>>, top_recipients |-> <<>>]

(* transform(transactions) on a non-empty list (lines 41-81): the heap after
   it, what it raised, and the pair it returns *)
Transform(h, list) ==
    LET st == TransformLoop([heap |-> h, cur |-> 0, transformed |-> <<>>,
                             total_amount |-> 0, sender_counts |-> <<>>,
                             recipient_counts |-> <<>>, raised |-> ""],
                            list, 1)
        n  == Len(st.transformed)
    IN [heap |-> st.heap,
        raised |-> st.raised,
        transformed |-> st.transformed,
        summary |->
          IF st.raised # "" THEN NoSummary
          ELSE [total_transactions |-> n,
                total_amount |-> st.total_amount,
                average_amount |->
                    IF n > 0 THEN TrueDiv(st.total_amount, n) ELSE <<0, 1>>,
                top_senders |-> TopCounts(st.sender_counts),
                top_recipients |-> TopCounts(st.recipient_counts)]]

----------------------------------------------------------------------------
(* load *)

NoFile == [exists |-> FALSE, torn |-> FALSE, docs |-> <<>>]

(* open(output_file, 'w') creates the file or truncates it to nothing; the
   variant opens it for appending *)
OpenForWrite_Append(f) == [f EXCEPT !.exists = TRUE]

OpenForWrite(f) == [exists |-> TRUE, torn |-> FALSE, docs |-> <<>>]

(* The structure json.dump receives (lines 87-90): references are followed,
   so the document holds the records' values at the time of the call *)
Document(h, list, summ) ==
    [summary |-> summ, transactions |-> [i \in DOMAIN list |-> h[list[i]]]]

(* What the file system lets the write do *)
IoOutcomes == {"ok", "open_error", "write_error"}

(* load(transformed_data, summary) (lines 84-99): the output file after it,
   and the value it returns *)
Load(doc, f, io) ==
    IF io = "open_error" THEN [file |-> f, ok |-> FALSE]
    ELSE IF io = "write_error"
    THEN [file |-> [OpenForWrite(f) EXCEPT !.torn = TRUE], ok |-> FALSE]
    ELSE LET o == OpenForWrite(f) IN
         [file |-> [o EXCEPT !.docs = Append(@, doc)], ok |-> TRUE]

----------------------------------------------------------------------------
(* Input files *)

Pairs == {<<"A", "B">>, <<"B", "A">>}

AmountTexts == {"10.00", "5.00", "abc"}

TimestampTexts == {"2023-01-02 10:00:00", "2023-02-29 11:00:00", "bad-timestamp"}

(* Rows of the mixed family: complete rows, rows cut short after the amount
   or after the recipient, and the blank row *)
MixedRows ==
    {<<p[1], p[2], a, t>> : p \in Pairs, a \in AmountTexts, t \in TimestampTexts}
    \cup {<<p[1], p[2], a>> : p \in Pairs, a \in AmountTexts}
    \cup {<<p[1], p[2]>> : p \in Pairs}
    \cup {<<>>}

MixedFiles ==
    {[exists |-> FALSE, rows |-> <<>>]}
    \cup {[exists |-> TRUE, rows |-> r] :
             r \in UNION {[1..n -> MixedRows] : n \in 0..MaxRows}}

TopNames == <<"A", "B", "C", "D", "E", "F", "G", "H">>

MaxOf(s) == IF s = <<>> THEN 0 ELSE CHOOSE m \in Range(s) : \A x \in Range(s) : x <= m

(* Sequences of name indices of length n in which every index is one already
   used or the next unused one *)
RECURSIVE Growth(_)
Growth(n) ==
    IF n = 0 THEN {<<>>}
    ELSE UNION {{Append(s, k) : k \in 1..Min(MaxOf(s) + 1, Len(TopNames))} :
                   s \in Growth(n - 1)}

(* Row of the many-senders family for name index k: the recipients are met
   in the reverse of the senders' alphabetical order *)
TopRow(k) ==
    <<TopNames[k], TopNames[Len(TopNames) + 1 - k],
      IF k % 2 = 1 THEN "10.00" ELSE "5.00", "2024-02-29 23:59:59">>

TopFiles ==
    {[exists |-> TRUE, rows |-> [i \in DOMAIN s |-> TopRow(s[i])]] :
        s \in UNION {Growth(n) : n \in 3..MaxTopRows}}

StaleFile ==
    [exists |-> TRUE, torn |-> FALSE,
     docs |-> <<[summary |-> NoSummary, transactions |-> <<>>]>>]

----------------------------------------------------------------------------
(* main *)

(* `if not transactions` of line 111 *)
ExtractionFailed_Never(list) == FALSE

ExtractionFailed(list) == list = <<>>

Init ==
    /\ \/ file \in MixedFiles /\ outfile \in {NoFile, StaleFile}
       \/ file \in TopFiles /\ outfile = NoFile
    /\ outfile0 = outfile
    /\ pc = "start"
    /\ run = 1
    /\ heap = <<>>
    /\ transactions = <<>>
    /\ transformed = <<>>
    /\ summary = NoSummary
    /\ success = FALSE
    /\ exc = ""
    /\ calls = <<>>
    /\ firstOut = <<>>

(* Lines 109-113: extract, and the return when it gave nothing *)
MainExtract ==
    /\ pc = "start"
    /\ LET recs == Extract(file) IN
       /\ heap' = recs
       /\ transactions' = [i \in DOMAIN recs |-> i]
       /\ pc' = IF ExtractionFailed(transactions') THEN "halted" ELSE "extracted"
    /\ calls' = Append(calls, "extract")
    /\ UNCHANGED <<file, outfile, run, transformed, summary, success, exc,
                   outfile0, firstOut>>

(* Line 116: transform, and the unpacking of its result.  On an empty list
   transform returns [] (lines 38-39), which does not unpack into two names:
   ValueError.  An exception leaves main. *)
MainTransform ==
    /\ pc = "extracted"
    /\ calls' = Append(calls, "transform")
    /\ IF transactions = <<>>
       THEN /\ pc' = "raised"
            /\ exc' = "ValueError"
            /\ UNCHANGED <<heap, transformed, summary>>
       ELSE LET r == Transform(heap, transactions) IN
            /\ heap' = r.heap
            /\ IF r.raised # ""
               THEN /\ pc' = "raised"
                    /\ exc' = r.raised
                    /\ UNCHANGED <<transformed, summary>>
               ELSE /\ pc' = "transformed"
                    /\ transformed' = r.transformed
                    /\ summary' = r.summary
                    /\ UNCHANGED exc
    /\ UNCHANGED <<file, outfile, run, transactions, success, outfile0, firstOut>>

(* Lines 119-126: load and the closing report *)
MainLoad ==
    /\ pc = "transformed"
    /\ calls' = Append(calls, "load")
    /\ \E io \in IoOutcomes :
         LET doc == Document(heap, transformed, summary)
             r   == Load(doc, outfile, io)
         IN /\ outfile' = r.file
            /\ success' = r.ok
            /\ firstOut' = IF r.ok /\ firstOut = <<>> THEN <<doc>> ELSE firstOut
    /\ pc' = "done"
    /\ UNCHANGED <<file, run, heap, transactions, transformed, summary, exc,
                   outfile0>>

(* The operator runs the program again on the unchanged input file: a new
   process, which finds the output file as the last run left it *)
Rerun ==
    /\ pc \in {"halted", "raised", "done"}
    /\ run < MaxRuns
    /\ run' = run + 1
    /\ pc' = "start"
    /\ heap' = <<>>
    /\ transactions' = <<>>
    /\ transformed' = <<>>
    /\ summary' = NoSummary
    /\ success' = FALSE
    /\ exc' = ""
    /\ calls' = <<>>
    /\ outfile0' = outfile
    /\ UNCHANGED <<file, outfile, firstOut>>

Next == MainExtract \/ MainTransform \/ MainLoad \/ Rerun

Spec == Init /\ [][Next]_vars

----------------------------------------------------------------------------
(* What the input file says, read off the file independently of extract *)

DataRows == SelectSeq(file.rows, IsDataRow)

CellAt(cells, i) == IF i <= Len(cells) THEN cells[i] ELSE None

RowReads(cells) == Len(cells) >= 3 /\ cells[3] \in DOMAIN AmountValue

AllRowsRead == file.exists /\ \A i \in DOMAIN DataRows : RowReads(DataRows[i])

ExpectedRaw ==
    [i \in DOMAIN DataRows |->
        [sender    |-> DataRows[i][1],
         recipient |-> DataRows[i][2],
         amount    |-> AmountValue[DataRows[i][3]],
         timestamp |-> CellAt(DataRows[i], 4)]]

RECURSIVE SumAmounts(_)
SumAmounts(recs) ==
    IF recs = <<>> THEN 0 ELSE SumAmounts(Front(recs)) + Last(recs).amount

SenderKeys == [i \in DOMAIN ExpectedRaw |-> ExpectedRaw[i].sender]

RecipientKeys == [i \in DOMAIN ExpectedRaw |-> ExpectedRaw[i].recipient]

Occurrences(keys, k) == Cardinality({i \in DOMAIN keys : keys[i] = k})

FirstIndex(keys, k) ==
    CHOOSE i \in DOMAIN keys : keys[i] = k /\ \A j \in 1..(i - 1) : keys[j] # k

TopKeys(top) == {top[i][1] : i \in DOMAIN top}

TransformReturned == pc \in {"transformed", "done"}

TimestampParses(text) == Strptime(text).raised = ""

----------------------------------------------------------------------------
(* C1: whenever extract has returned an empty list, main is halted right
   after extraction: extract is the only stage the run invoked, nothing was
   transformed, and the output file is exactly as the run found it. *)
C1_HaltAfterEmptyExtraction ==
    (calls # <<>> /\ transactions = <<>>) =>
        /\ pc = "halted"
        /\ calls = <<"extract">>
        /\ transformed = <<>>
        /\ outfile = outfile0

(* C1 witness: a run halted on an existing file with a bad row, with an
   earlier output file still in place. *)
C1_Witness ==
    /\ pc = "halted"
    /\ file.exists /\ DataRows # <<>>
    /\ outfile = StaleFile

(* C2: no exception leaves any stage, hence none leaves main. *)
C2_NoExceptionPropagates == exc = ""

(* C3: right after extract returns, its result is every row's record in row
   order when every row reads, and the empty list otherwise. *)
C3_ExtractAllOrNothing ==
    pc \in {"extracted", "halted"} =>
        LET got == [i \in DOMAIN transactions |-> heap[transactions[i]]]
        IN IF AllRowsRead THEN got = ExpectedRaw ELSE got = <<>>

(* C3 witness: extraction gave nothing although the first row reads, because
   the second does not. *)
C3_Witness ==
    /\ pc = "halted"
    /\ file.exists /\ Len(DataRows) >= 2
    /\ RowReads(DataRows[1]) /\ ~RowReads(DataRows[2])

(* C4: once transform has been invoked, it has not aborted, and every record
   whose timestamp does not parse has the three derived fields "Unknown", is
   in the enriched output and is counted in the summary. *)
C4_UnparsedTimestampKept ==
    ("transform" \in Range(calls)) =>
        /\ exc = ""
        /\ summary.total_transactions = Len(transactions)
        /\ summary.total_amount = SumAmounts(ExpectedRaw)
        /\ \A i \in DOMAIN transactions :
             ~TimestampParses(ExpectedRaw[i].timestamp) =>
                LET r == heap[transactions[i]] IN
                /\ {"date", "time", "day_of_week"} \subseteq DOMAIN r
                /\ r.date = "Unknown" /\ r.time = "Unknown"
                /\ r.day_of_week = "Unknown"
                /\ transactions[i] \in Range(transformed)
                /\ \E j \in DOMAIN summary.top_senders :
                     /\ summary.top_senders[j][1] = r.sender
                     /\ summary.top_senders[j][2] = Occurrences(SenderKeys, r.sender)

(* C5: the enriched list transform returns has the input's length and its
   i-th record carries the four raw fields of the i-th row. *)
C5_OrderPreserved ==
    TransformReturned =>
        /\ Len(transformed) = Len(DataRows)
        /\ \A i \in DOMAIN transformed :
             LET r == heap[transformed[i]] IN
             /\ r.sender = ExpectedRaw[i].sender
             /\ r.recipient = ExpectedRaw[i].recipient
             /\ r.amount = ExpectedRaw[i].amount
             /\ r.timestamp = ExpectedRaw[i].timestamp

(* C5 witness: transform returned on a file whose first two rows differ. *)
C5_Witness ==
    /\ pc = "transformed"
    /\ Len(DataRows) >= 2 /\ DataRows[1] # DataRows[2]

(* C6: the summary counts every input record, totals every input amount, and
   its average times the count is the total. *)
C6_SummaryTotals ==
    TransformReturned =>
        LET n == Len(ExpectedRaw)
            avg == summary.average_amount
        IN /\ summary.total_transactions = n
           /\ summary.total_amount = SumAmounts(ExpectedRaw)
           /\ avg[2] > 0
           /\ avg[1] * n = summary.total_amount * avg[2]

(* C6 witness: a summary over several records whose average is not a whole
   number of hundredths. *)
C6_Witness ==
    /\ pc = "transformed"
    /\ summary.total_transactions >= 3
    /\ summary.average_amount[2] > 1

(* `top` is the TopK most frequent keys of `keys` with their true counts, in
   non-increasing order of count. *)
IsTopCounts(top, keys) ==
    /\ Len(top) = Min(TopK, Cardinality(Range(keys)))
    /\ \A i \in DOMAIN top :
         /\ top[i][1] \in Range(keys)
         /\ top[i][2] = Occurrences(keys, top[i][1])
    /\ \A i, j \in DOMAIN top : i < j => top[i][1] # top[j][1] /\ top[i][2] >= top[j][2]
    /\ \A k \in Range(keys) \ TopKeys(top) :
         \A i \in DOMAIN top : top[i][2] >= Occurrences(keys, k)

(* C7: top_senders and top_recipients hold min(5, distinct keys) entries with
   their true counts, in non-increasing order, none smaller than the count of
   a key left out. *)
C7_TopCounts ==
    TransformReturned =>
        /\ IsTopCounts(summary.top_senders, SenderKeys)
        /\ IsTopCounts(summary.top_recipients, RecipientKeys)

(* C7 witness: more than five senders, and one kept although a sender met
   before it was left out. *)
C7_Witness ==
    /\ pc = "transformed"
    /\ Cardinality(Range(SenderKeys)) > TopK
    /\ \E k \in TopKeys(summary.top_senders) :
         \E x \in Range(SenderKeys) \ TopKeys(summary.top_senders) :
            FirstIndex(SenderKeys, x) < FirstIndex(SenderKeys, k)

(* Among keys of equal count, the one met first in the input comes first,
   and is the one kept at the cutoff. *)
TiesInFirstSeenOrder(top, keys) ==
    /\ \A i, j \in DOMAIN top :
         (i < j /\ top[i][2] = top[j][2]) =>
            FirstIndex(keys, top[i][1]) < FirstIndex(keys, top[j][1])
    /\ \A k \in Range(keys) \ TopKeys(top) :
         \A i \in DOMAIN top :
            top[i][2] = Occurrences(keys, k) =>
               FirstIndex(keys, top[i][1]) < FirstIndex(keys, k)

(* C8: ties in top_senders and top_recipients are in first-seen order, and a
   tie across the cutoff keeps the keys seen first. *)
C8_TieOrder ==
    TransformReturned =>
        /\ TiesInFirstSeenOrder(summary.top_senders, SenderKeys)
        /\ TiesInFirstSeenOrder(summary.top_recipients, RecipientKeys)

(* C8 witness: a sender left out has the same count as the last one kept. *)
C8_Witness ==
    /\ pc = "transformed"
    /\ Len(summary.top_senders) = TopK
    /\ \E x \in Range(SenderKeys) \ TopKeys(summary.top_senders) :
         Occurrences(SenderKeys, x) = summary.top_senders[TopK][2]

(* C9: every run that ends with a successful load leaves in the output file
   exactly the one document the first successful load wrote. *)
C9_RerunSameOutput ==
    (pc = "done" /\ success) =>
        outfile = [exists |-> TRUE, torn |-> FALSE, docs |-> firstOut]

(* C9 witness: a second run has loaded over the output of a first. *)
C9_Witness ==
    /\ run = 2 /\ pc = "done" /\ success
    /\ outfile0.docs = firstOut
    /\ Len(firstOut[1].transactions) >= 2

(* C10 as stated: after transform returns, every input record is the raw
   record it was, and no enriched record is an input record. *)
C10_InputRecordsUntouched ==
    TransformReturned =>
        /\ \A i \in DOMAIN transactions : heap[transactions[i]] = ExpectedRaw[i]
        /\ Range(transformed) \cap Range(transactions) = {}

(* C10 amended: after transform returns, every input record keeps its four
   original fields and values, has the four derived fields added to it, and
   is itself the enriched record at the same position. *)
C10_InputRecordsEnrichedInPlace ==
    TransformReturned =>
        /\ transformed = transactions
        /\ \A i \in DOMAIN transactions :
             LET r == heap[transactions[i]] IN
             /\ DOMAIN r = Range(FieldNames) \cup DerivedFields
             /\ [k \in Range(FieldNames) |-> r[k]] = ExpectedRaw[i]

(* C10 witness: transform returned on two records, one of them with a
   timestamp that did not parse. *)
C10_Witness ==
    /\ pc = "transformed"
    /\ Len(transactions) >= 2
    /\ heap[transactions[2]].date = "Unknown"

====
